---- MODULE Spec2Model ----
(***************************************************************************)
(* AI Travel Assistant: the retrying model client (query_llama), the       *)
(* five-stage planning pipeline in its two variants (travel_assistant.py,  *)
(* the direct client; travel_crew.py, the CrewAI crew) and the split of    *)
(* the budget output into a budget and a packing section.                  *)
(*                                                                         *)
(* Texts are sequences of one-character strings, so that Python's `in`,    *)
(* str.split and str.strip are computed character by character.            *)
(***************************************************************************)
EXTENDS Integers, Sequences, FiniteSets, TLC

\* ------------------------------------------------------------------ bounds
\* Segments concatenated into one budget output (SpecPartition).
MaxSegs == 4
\* Largest max_retries a stand-alone query_llama call is given (SpecClient).
MaxRetriesBound == 4
\* Faulty endpoint answers (error, missing field, non-object body) per session.
MaxFaults == 3
\* Accepted "Plan My Trip" presses per session.
MaxRuns == 2
\* Calendar days offered by the two date inputs.
MaxDay == 2
MaxWeatherRequests == 3

\* ------------------------------------------------------------- string constants
packing_list_marker == <<"#"," ","P","a","c","k","i","n","g"," ","L","i","s","t">>
PackingWords == <<"P","a","c","k","i","n","g"," ","L","i","s","t">>
AssistantPlaceholder == <<"P","a","c","k","i","n","g"," ","l","i","s","t"," ","n","o","t"," ","g","e","n","e","r","a","t","e","d">>
CrewPlaceholder == <<"P","a","c","k","i","n","g"," ","l","i","s","t"," ","s","e","c","t","i","o","n"," ","n","o","t"," ","f","o","u","n","d"," ","i","n"," ","b","u","d","g","e","t"," ","o","u","t","p","u","t",".">>
ErrInvalidFormat == <<"E","r","r","o","r",":"," ","I","n","v","a","l","i","d"," ","r","e","s","p","o","n","s","e"," ","f","o","r","m","a","t"," ","f","r","o","m"," ","L","L","M">>
ErrFailedAfter == <<"E","r","r","o","r",":"," ","L","L","M"," ","r","e","q","u","e","s","t"," ","f","a","i","l","e","d"," ","a","f","t","e","r"," ">>
ErrAttempts == <<" ","a","t","t","e","m","p","t","s">>
ErrFallback == <<"E","r","r","o","r",":"," ","L","L","M"," ","r","e","q","u","e","s","t"," ","f","a","i","l","e","d">>
NoBudgetGenerated == <<"N","o"," ","b","u","d","g","e","t"," ","g","e","n","e","r","a","t","e","d",".">>

\* ------------------------------------------------------------ Python str helpers
\* str.isspace() characters that occur in the modelled texts.
Whitespace == {" ", "\n", "\t"}

\* sub in s
Contains(s, sub) ==
    \E i \in 1..(Len(s) - Len(sub) + 1) : SubSeq(s, i, i + Len(sub) - 1) = sub

\* s.find(sub) + 1: the 1-based place of the first occurrence, 0 when there is none
Find(s, sub) ==
    IF Contains(s, sub)
    THEN CHOOSE i \in 1..(Len(s) - Len(sub) + 1) :
            /\ SubSeq(s, i, i + Len(sub) - 1) = sub
            /\ \A j \in 1..(i - 1) : SubSeq(s, j, j + Len(sub) - 1) # sub
    ELSE 0

\* s.split(sep): every non-overlapping occurrence, left to right
RECURSIVE Split(_, _)
Split(s, sep) ==
    LET i == Find(s, sep)
    IN IF i = 0 THEN <<s>>
       ELSE <<SubSeq(s, 1, i - 1)>> \o Split(SubSeq(s, i + Len(sep), Len(s)), sep)

\* s.split(sep, 1): at the first occurrence only
SplitOnce(s, sep) ==
    LET i == Find(s, sep)
    IN IF i = 0 THEN <<s>>
       ELSE <<SubSeq(s, 1, i - 1), SubSeq(s, i + Len(sep), Len(s))>>

RECURSIVE LStrip(_)
LStrip(s) ==
    IF s # <<>> /\ Head(s) \in Whitespace THEN LStrip(Tail(s)) ELSE s

RECURSIVE RStrip(_)
RStrip(s) ==
    IF s # <<>> /\ s[Len(s)] \in Whitespace THEN RStrip(SubSeq(s, 1, Len(s) - 1)) ELSE s

\* s.strip()
Strip(s) == LStrip(RStrip(s))

\* str(n) for a natural number
Digits == <<"0","1","2","3","4","5","6","7","8","9">>
RECURSIVE IntToStr(_)
IntToStr(n) ==
    IF n < 10 THEN <<Digits[n + 1]>>
    ELSE IntToStr(n \div 10) \o <<Digits[(n % 10) + 1]>>

\* ------------------------------------------------------------------- dicts
EmptyDict == [k \in {} |-> <<>>]
Put(d, k, v) == [x \in (DOMAIN d) \cup {k} |-> IF x = k THEN v ELSE d[x]]

\* ------------------------------------------------------ budget/packing split
\* travel_assistant.py: the test looks for "Packing List", the split for
\* "# Packing List"; every occurrence splits; nothing is stripped.
PartitionAssistant(budget_result) ==
    IF Contains(budget_result, PackingWords)
    THEN LET parts == Split(budget_result, packing_list_marker)
         IN [budget  |-> parts[1],
             packing |-> IF Len(parts) > 1
                         THEN packing_list_marker \o parts[2]
                         ELSE <<>>]
    ELSE [budget |-> budget_result, packing |-> AssistantPlaceholder]

\* travel_crew.py: one split at the first marker; both parts stripped on both
\* sides, the marker then prepended to the stripped tail.
PartitionCrew(budget_output_raw) ==
    IF Contains(budget_output_raw, packing_list_marker)
    THEN LET parts == SplitOnce(budget_output_raw, packing_list_marker)
         IN [budget  |-> Strip(parts[1]),
             packing |-> packing_list_marker \o Strip(parts[2])]
    ELSE [budget |-> budget_output_raw, packing |-> CrewPlaceholder]

\* ------------------------------------------------------------ program constants
\* query_llama's default max_retries; every agent calls query_llama(prompt).
DefaultMaxRetries == 3
\* wait_time = 2 ** attempt seconds: the backoff unit is one second.
BackoffBase == 1

\* Mutant of StageKeys: two stages run in the wrong order.
StageKeysSwapped ==
    <<"itinerary", "recommendations", "experiences", "safety", "budget">>
\* The five stages in the order the pipeline runs them, by result key.
StageKeys == <<"itinerary", "experiences", "recommendations", "safety", "budget">>
ResultKeys == {StageKeys[i] : i \in 1..Len(StageKeys)} \cup {"packing"}

\* `task.output.raw if task.output else "No ... generated."`
NoOutputText(key) ==
    CASE key = "itinerary"       -> <<"N","o"," ","i","t","i","n","e","r","a","r","y"," ","g","e","n","e","r","a","t","e","d",".">>
      [] key = "experiences"     -> <<"N","o"," ","e","x","p","e","r","i","e","n","c","e","s"," ","g","e","n","e","r","a","t","e","d",".">>
      [] key = "recommendations" -> <<"N","o"," ","r","e","c","o","m","m","e","n","d","a","t","i","o","n","s"," ","g","e","n","e","r","a","t","e","d",".">>
      [] key = "safety"          -> <<"N","o"," ","s","a","f","e","t","y"," ","i","n","f","o"," ","g","e","n","e","r","a","t","e","d",".">>
      [] OTHER                   -> NoBudgetGenerated

\* ------------------------------------------------------------- the stub endpoint
\* Canned generations of the model, one per stage before the budget stage.
CannedText == <<<<"#"," ","I">>, <<"#"," ","E">>, <<"#"," ","R">>, <<"#"," ","S">>>>
\* Budget generations: the specification's two examples, and a packing heading
\* written without its "# ".
SpecExample == <<"#"," ","B","u","d","g","e","t"," ","E","s","t","i","m","a","t","e","\n",".",".",".","\n","#"," ","P","a","c","k","i","n","g"," ","L","i","s","t","\n","I","t","e","m"," ","A">>
SpecExampleNoMarker == <<"#"," ","B","u","d","g","e","t"," ","E","s","t","i","m","a","t","e"," ","o","n","l","y">>
UnhashedExample == <<"P","a","c","k","i","n","g"," ","L","i","s","t","\n","-"," ","s","o","c","k","s">>
BudgetTexts == {SpecExample, SpecExampleNoMarker, UnhashedExample}

\* "Error: LLM request failed after {max_retries} attempts"
ExhaustedMessage(n) == ErrFailedAfter \o IntToStr(n) \o ErrAttempts

\* Texts the model may generate for a stage (stage 0: a stand-alone call, where
\* the model may also generate the very text of query_llama's error message).
EndpointTexts(s) ==
    IF s = 0 THEN {CannedText[1], ExhaustedMessage(DefaultMaxRetries), ErrInvalidFormat}
    ELSE IF s < Len(StageKeys) THEN {CannedText[s]}
    ELSE BudgetTexts

\* What one POST to /api/generate can come back with.
FaultKinds == {"connection_error", "timeout", "http_error", "no_field", "non_object"}
Outcomes(s) ==
    {[kind |-> k, text |-> <<>>] : k \in FaultKinds}
    \cup {[kind |-> "ok", text |-> t] : t \in EndpointTexts(s)}

\* Mutant of RaisesRequestException: a body without the field is retried too.
RetriesMalformed(o) ==
    o.kind \in {"connection_error", "timeout", "http_error", "no_field"}
\* Mutant of RaisesRequestException: a non-2xx status is not an exception.
RaisesOnlyOnTransport(o) == o.kind \in {"connection_error", "timeout"}
\* requests.post raises (connection error, timeout) or raise_for_status raises
\* (non-2xx): all are requests.exceptions.RequestException.
RaisesRequestException(o) == o.kind \in {"connection_error", "timeout", "http_error"}
\* `"response" in response_data` on a JSON object
HasResponseField(o) == o.kind = "ok"
\* `"response" in response_data` on a JSON body that is no container (null, a
\* number) raises TypeError, which query_llama does not catch.
RaisesTypeError(o) == o.kind = "non_object"

\* Mutants of ShouldRetry: giving up one attempt early; sleeping after the last.
ShouldRetryGivesUpEarly(a, m) == a < m - 2
ShouldRetrySleepsAfterLast(a, m) == a < m
\* `if attempt < max_retries - 1`: sleep and go round again
ShouldRetry(a, m) == a < m - 1
\* Mutant of wait_time: a linear backoff.
wait_time_linear(a) == 2 * a
\* `wait_time = 2 ** attempt`
wait_time(a) == 2 ^ a

\* -------------------------------------------------------------------- state
VARIABLES
    variant,        \* "assistant" (travel_assistant.py) or "crew" (travel_crew.py)
    results,        \* st.session_state.results: result key -> text
    processing,     \* st.session_state.processing
    user_input,     \* st.session_state.user_input
    status,         \* the st.status widget: none, running, complete, error
    message,        \* the st.error shown by the script run: none, dates, planning_failed, no_ollama
    pc,             \* where the script is
    stage,          \* the stage being run, 1..5 (0: none)
    task_output,    \* crew: task.output.raw of the tasks that have run
    budget_result,  \* the raw budget text handed to the split
    cl_pc,          \* query_llama: idle, loop, inflight, sleep, returned, raised
    attempt,        \* query_llama: the loop variable
    max_retries,    \* query_llama: its parameter
    ret,            \* query_llama: the str it returned
    path,           \* query_llama: the exit it took
    log,            \* query_llama: requests sent, answers received and sleeps of this call
    fault_budget,   \* faulty answers the endpoint may still give
    outcome,        \* per stage of this run: the exit its call took
    dispatched,     \* stages handed to the client or the crew in this run, in order
    runs,           \* accepted "Plan My Trip" presses so far
    api_key,        \* the environment's OPENWEATHERMAP_API_KEY, as os.getenv gives it
    w_pc,           \* WeatherTool._run: idle, inflight, returned, raised
    w_city,         \* WeatherTool._run: its argument
    w_ret,          \* WeatherTool._run: the str it returned
    w_requests      \* the URLs WeatherTool has sent a GET to, in order

vars == <<variant, results, processing, user_input, status, message, pc, stage,
          task_output, budget_result, cl_pc, attempt, max_retries, ret, path, log,
          fault_budget, outcome, dispatched, runs,
          api_key, w_pc, w_city, w_ret, w_requests>>

weather == <<api_key, w_pc, w_city, w_ret, w_requests>>
session == <<results, processing, user_input, status, message>>
client == <<cl_pc, attempt, max_retries, ret, path, log>>

\* No weather lookup is under way.
NoKey == [present |-> FALSE, value |-> <<>>]
WeatherUnused ==
    /\ api_key = NoKey /\ w_pc = "idle" /\ w_city = <<>>
    /\ w_ret = <<>> /\ w_requests = <<>>

Ev(e, n, t) == [ev |-> e, n |-> n, txt |-> t]
NoInput == [present |-> FALSE, start_date |-> <<>>, end_date |-> <<>>,
            duration |-> 0, destination |-> <<>>]
NoOutcome == [s \in 1..Len(StageKeys) |-> "none"]
Destinations == {<<"P","a","r","i","s">>, <<>>}

\* ------------------------------------------------------------- prompts
\* The request fields each agent's f-string interpolates, in template order
\* (fields the form always fills, such as num_people, are left out).
PromptFields ==
    << <<"duration", "start_date", "end_date", "destination", "destination">>,
       <<"destination", "destination">>,
       <<"destination">>,
       <<"destination", "start_date", "end_date">>,
       <<"destination", "duration">> >>

\* str() of one interpolated field.
FieldText(ui, f) == IF f = "duration" THEN IntToStr(ui.duration) ELSE ui[f]

\* The f-string: every field is rendered in place, whatever its value; an
\* empty value renders as the empty text and nothing is raised.
RECURSIVE Render(_, _)
Render(fields, ui) ==
    IF fields = <<>> THEN <<>>
    ELSE <<"|">> \o FieldText(ui, Head(fields)) \o Render(Tail(fields), ui)

Prompt(s, ui) == StageKeys[s] :> Render(PromptFields[s], ui)

\* ------------------------------------------------------------- query_llama
\* The head of `for attempt in range(max_retries)` and the POST it leads to;
\* a range that is used up falls through to the final return.
SendRequest ==
    /\ cl_pc = "loop"
    /\ IF attempt < max_retries
       THEN /\ cl_pc' = "inflight"
            /\ log' = Append(log, Ev("req", attempt,
                    IF stage \in 1..Len(StageKeys) THEN Prompt(stage, user_input) ELSE <<>>))
            /\ UNCHANGED <<ret, path>>
       ELSE /\ cl_pc' = "returned"
            /\ ret' = ErrFallback
            /\ path' = "fallback"
            /\ UNCHANGED log
    /\ UNCHANGED <<variant, weather, session, pc, stage, task_output, budget_result,
                   attempt, max_retries, fault_budget, outcome, dispatched, runs>>

\* The answer to the outstanding POST and everything query_llama does with it,
\* up to its return, its raise or the start of its sleep.
Receive(o) ==
    /\ cl_pc = "inflight"
    /\ o \in Outcomes(stage)
    /\ o.kind # "ok" => fault_budget > 0
    /\ fault_budget' = IF o.kind # "ok" THEN fault_budget - 1 ELSE fault_budget
    /\ IF RaisesRequestException(o)
       THEN IF ShouldRetry(attempt, max_retries)
            THEN /\ cl_pc' = "sleep"
                 /\ log' = log \o <<Ev(o.kind, attempt, o.text),
                                    Ev("sleep", wait_time(attempt), <<>>)>>
                 /\ UNCHANGED <<ret, path>>
            ELSE /\ cl_pc' = "returned"
                 /\ ret' = ExhaustedMessage(max_retries)
                 /\ path' = "exhausted"
                 /\ log' = Append(log, Ev(o.kind, attempt, o.text))
       ELSE /\ log' = Append(log, Ev(o.kind, attempt, o.text))
            /\ IF RaisesTypeError(o)
               THEN /\ cl_pc' = "raised"
                    /\ path' = "typeerror"
                    /\ UNCHANGED ret
               ELSE IF HasResponseField(o)
               THEN /\ cl_pc' = "returned"
                    /\ ret' = o.text
                    /\ path' = "response"
               ELSE /\ cl_pc' = "returned"
                    /\ ret' = ErrInvalidFormat
                    /\ path' = "invalid"
    /\ UNCHANGED <<variant, weather, session, pc, stage, task_output, budget_result,
                   attempt, max_retries, outcome, dispatched, runs>>

\* time.sleep(wait_time) is over: the next round of the loop
Wake ==
    /\ cl_pc = "sleep"
    /\ cl_pc' = "loop"
    /\ attempt' = attempt + 1
    /\ UNCHANGED <<variant, weather, session, pc, stage, task_output, budget_result,
                   max_retries, ret, path, log, fault_budget, outcome, dispatched, runs>>

\* A stand-alone call query_llama(prompt, max_retries = m) against an endpoint
\* that gives at most f faulty answers.
ClientInit ==
    /\ WeatherUnused
    /\ variant = "assistant"
    /\ results = EmptyDict /\ processing = FALSE /\ user_input = NoInput
    /\ status = "none" /\ message = "none"
    /\ pc = "standalone" /\ stage = 0
    /\ task_output = EmptyDict /\ budget_result = <<>>
    /\ cl_pc = "loop" /\ attempt = 0
    /\ max_retries \in 1..MaxRetriesBound
    /\ ret = <<>> /\ path = "none" /\ log = <<>>
    /\ fault_budget \in 0..MaxRetriesBound
    /\ outcome = NoOutcome /\ dispatched = <<>> /\ runs = 0

ClientNext ==
    \/ SendRequest
    \/ \E o \in Outcomes(0) : Receive(o)
    \/ Wake

SpecClient == ClientInit /\ [][ClientNext]_vars

\* ------------------------------------------------------------ the sidebar form
\* str(start_date), str(end_date): dates are day numbers here.
DateStr(d) == IntToStr(d)
Days == 1..MaxDay

\* Mutant of DatesRejected: equal dates are let through.
DatesRejectedOnlyWhenAfter(sd, ed) == sd > ed
\* `if start_date >= end_date: st.error("End date must be after start date")`
DatesRejected(sd, ed) == sd >= ed

\* "Plan My Trip": the date check, then the session state the variant sets. The
\* assistant script runs on into its processing block; the crew script reruns
\* (st.rerun) and meets its health check first.
PlanMyTrip(sd, ed, dest) ==
    /\ pc \in {"idle", "stopped"}
    /\ runs < MaxRuns
    /\ IF DatesRejected(sd, ed)
       THEN /\ message' = "dates"
            /\ pc' = IF pc = "stopped" THEN "health" ELSE pc
            /\ UNCHANGED <<results, processing, user_input, status, stage, task_output,
                           budget_result, outcome, dispatched, runs>>
       ELSE /\ runs' = runs + 1
            /\ processing' = TRUE
            /\ user_input' = [present |-> TRUE, start_date |-> DateStr(sd),
                              end_date |-> DateStr(ed), duration |-> ed - sd,
                              destination |-> dest]
            /\ message' = "none"
            /\ outcome' = NoOutcome
            /\ dispatched' = <<>>
            /\ task_output' = EmptyDict
            /\ budget_result' = <<>>
            /\ IF variant = "assistant"
               THEN /\ UNCHANGED results
                    /\ status' = "running"
                    /\ pc' = "agent"
                    /\ stage' = 1
               ELSE /\ results' = EmptyDict
                    /\ status' = "none"
                    /\ pc' = "health"
                    /\ stage' = 0
    /\ UNCHANGED <<variant, weather, client, fault_budget>>

\* -------------------------------------------- travel_assistant.py: the pipeline
\* Mutant of CallAgent: the next agent is also called while the previous call
\* is still waiting for its answer or sleeping.
CallAgentWithoutWaiting ==
    /\ variant = "assistant"
    /\ \/ pc = "agent" /\ stage' = stage
       \/ /\ pc = "call" /\ cl_pc \in {"inflight", "sleep"}
          /\ stage < Len(StageKeys)
          /\ stage' = stage + 1
    /\ pc' = "call"
    /\ cl_pc' = "loop"
    /\ attempt' = 0
    /\ max_retries' = DefaultMaxRetries
    /\ ret' = <<>>
    /\ path' = "none"
    /\ log' = <<>>
    /\ dispatched' = Append(dispatched, StageKeys[stage'])
    /\ UNCHANGED <<variant, weather, session, task_output, budget_result,
                   fault_budget, outcome, runs>>
\* Mutant of CallAgent: the agents call query_llama(prompt, max_retries=0).
CallAgentZeroAttempts ==
    /\ variant = "assistant"
    /\ pc = "agent"
    /\ pc' = "call"
    /\ cl_pc' = "loop"
    /\ attempt' = 0
    /\ max_retries' = 0
    /\ ret' = <<>>
    /\ path' = "none"
    /\ log' = <<>>
    /\ dispatched' = Append(dispatched, StageKeys[stage])
    /\ UNCHANGED <<variant, weather, session, stage, task_output, budget_result,
                   fault_budget, outcome, runs>>

\* planner_agent .. budget_agent: render the prompt, call query_llama(prompt).
CallAgent ==
    /\ variant = "assistant"
    /\ pc = "agent"
    /\ pc' = "call"
    /\ cl_pc' = "loop"
    /\ attempt' = 0
    /\ max_retries' = DefaultMaxRetries
    /\ ret' = <<>>
    /\ path' = "none"
    /\ log' = <<>>
    /\ dispatched' = Append(dispatched, StageKeys[stage])
    /\ UNCHANGED <<variant, weather, session, stage, task_output, budget_result,
                   fault_budget, outcome, runs>>

\* st.session_state.results[key] = <agent>(user_input), stages 1..4
StoreResult ==
    /\ variant = "assistant"
    /\ pc = "call" /\ cl_pc = "returned"
    /\ stage < Len(StageKeys)
    /\ results' = Put(results, StageKeys[stage], ret)
    /\ outcome' = [outcome EXCEPT ![stage] = path]
    /\ stage' = stage + 1
    /\ pc' = "agent"
    /\ cl_pc' = "idle"
    /\ UNCHANGED <<variant, weather, processing, user_input, status, message, task_output,
                   budget_result, attempt, max_retries, ret, path, log,
                   fault_budget, dispatched, runs>>

\* Mutant of StoreBudget: the packing entry is never written.
StoreBudgetWithoutPacking ==
    /\ variant = "assistant"
    /\ pc = "call" /\ cl_pc = "returned"
    /\ stage = Len(StageKeys)
    /\ budget_result' = ret
    /\ LET p == PartitionAssistant(ret)
       IN results' = Put(results, "budget", p.budget)
    /\ outcome' = [outcome EXCEPT ![stage] = path]
    /\ status' = "complete"
    /\ processing' = FALSE
    /\ pc' = "idle"
    /\ cl_pc' = "idle"
    /\ UNCHANGED <<variant, weather, user_input, message, stage, task_output,
                   attempt, max_retries, ret, path, log, fault_budget, dispatched, runs>>

\* Mutant of StoreBudget: the packing entry does not come from the budget output.
StoreBudgetPackingMadeUp ==
    /\ variant = "assistant"
    /\ pc = "call" /\ cl_pc = "returned"
    /\ stage = Len(StageKeys)
    /\ budget_result' = ret
    /\ LET p == PartitionAssistant(ret)
       IN results' = Put(Put(results, "budget", p.budget), "packing", AssistantPlaceholder)
    /\ outcome' = [outcome EXCEPT ![stage] = path]
    /\ status' = "complete"
    /\ processing' = FALSE
    /\ pc' = "idle"
    /\ cl_pc' = "idle"
    /\ UNCHANGED <<variant, weather, user_input, message, stage, task_output,
                   attempt, max_retries, ret, path, log, fault_budget, dispatched, runs>>

\* budget_result = budget_agent(user_input), the split, "Trip plan ready",
\* processing = False, st.rerun()
StoreBudget ==
    /\ variant = "assistant"
    /\ pc = "call" /\ cl_pc = "returned"
    /\ stage = Len(StageKeys)
    /\ budget_result' = ret
    /\ LET p == PartitionAssistant(ret)
       IN results' = Put(Put(results, "budget", p.budget), "packing", p.packing)
    /\ outcome' = [outcome EXCEPT ![stage] = path]
    /\ status' = "complete"
    /\ processing' = FALSE
    /\ pc' = "idle"
    /\ cl_pc' = "idle"
    /\ UNCHANGED <<variant, weather, user_input, message, stage, task_output,
                   attempt, max_retries, ret, path, log, fault_budget, dispatched, runs>>

\* f"Failed to generate plan: {e}"
FailedToGeneratePlan == <<"F","a","i","l","e","d"," ","t","o"," ","g","e","n","e","r","a","t","e"," ","p","l","a","n",":"," ","c","r","e","w"," ","e","r","r","o","r">>

\* Mutant of ResultsAfterException: the crew script keeps the outputs of the
\* tasks that were done next to the error entry.
ResultsAfterExceptionKeepsOutputs(v, r) ==
    IF v = "assistant" THEN r ELSE Put(task_output, "error", FailedToGeneratePlan)
\* What `except Exception` leaves in st.session_state.results: the assistant
\* script does not touch it, the crew script replaces it by the error entry.
ResultsAfterException(v, r) ==
    IF v = "assistant" THEN r ELSE Put(EmptyDict, "error", FailedToGeneratePlan)

\* Mutant of PlanningFailed: the except block forgets processing = False.
PlanningFailedKeepsProcessing ==
    /\ variant = "assistant"
    /\ pc = "call" /\ cl_pc = "raised"
    /\ message' = "planning_failed"
    /\ status' = "error"
    /\ outcome' = [outcome EXCEPT ![stage] = path]
    /\ pc' = "idle"
    /\ cl_pc' = "idle"
    /\ results' = ResultsAfterException(variant, results)
    /\ UNCHANGED <<variant, weather, processing, user_input, stage, task_output, budget_result,
                   attempt, max_retries, ret, path, log, fault_budget, dispatched, runs>>

\* except Exception: the error is shown, processing = False, "Planning failed";
\* the results written so far stay.
PlanningFailed ==
    /\ variant = "assistant"
    /\ pc = "call" /\ cl_pc = "raised"
    /\ message' = "planning_failed"
    /\ processing' = FALSE
    /\ status' = "error"
    /\ outcome' = [outcome EXCEPT ![stage] = path]
    /\ pc' = "idle"
    /\ cl_pc' = "idle"
    /\ results' = ResultsAfterException(variant, results)
    /\ UNCHANGED <<variant, weather, user_input, stage, task_output, budget_result,
                   attempt, max_retries, ret, path, log, fault_budget, dispatched, runs>>

\* ------------------------------------------------- travel_crew.py: the pipeline
\* check_ollama_health() at the top of a script run that has a plan to make; a
\* healthy endpoint lets the script create agents and tasks and kick the crew off.
CheckHealth(healthy) ==
    /\ variant = "crew"
    /\ pc = "health"
    /\ processing
    /\ IF healthy
       THEN /\ status' = "running"
            /\ message' = "none"
            /\ pc' = "task"
            /\ stage' = 1
            /\ task_output' = EmptyDict
       ELSE /\ message' = "no_ollama"
            /\ pc' = "stopped"
            /\ UNCHANGED <<status, stage, task_output>>
    /\ UNCHANGED <<variant, weather, results, processing, user_input, budget_result,
                   client, fault_budget, outcome, dispatched, runs>>

\* "Try Again" under the health warning: st.rerun()
TryAgain ==
    /\ variant = "crew"
    /\ pc = "stopped"
    /\ pc' = "health"
    /\ message' = "none"
    /\ UNCHANGED <<variant, weather, results, processing, user_input, status, stage, task_output,
                   budget_result, client, fault_budget, outcome, dispatched, runs>>

\* What the crew makes of one task: its raw output, or an exception out of kickoff().
CrewOutcomes(s) ==
    {[kind |-> "raise", text |-> <<>>]}
    \cup {[kind |-> "ok", text |-> t] : t \in EndpointTexts(s)}

\* travel_crew.kickoff(), Process.sequential: the next task of the list. An
\* exception leaves the try block for `except Exception`: processing = False,
\* results = {"error": ...}, st.rerun().
CrewTask(o) ==
    /\ variant = "crew"
    /\ pc = "task"
    /\ o \in CrewOutcomes(stage)
    /\ dispatched' = Append(dispatched, StageKeys[stage])
    /\ IF o.kind = "ok"
       THEN /\ task_output' = Put(task_output, StageKeys[stage], o.text)
            /\ outcome' = [outcome EXCEPT ![stage] = "response"]
            /\ IF stage < Len(StageKeys)
               THEN stage' = stage + 1 /\ pc' = "task"
               ELSE stage' = stage /\ pc' = "collect"
            /\ UNCHANGED <<results, processing, status, message, fault_budget>>
       ELSE /\ fault_budget > 0
            /\ fault_budget' = fault_budget - 1
            /\ outcome' = [outcome EXCEPT ![stage] = "raised"]
            /\ message' = "planning_failed"
            /\ processing' = FALSE
            /\ status' = "error"
            /\ results' = ResultsAfterException(variant, results)
            /\ pc' = "idle"
            /\ UNCHANGED <<stage, task_output>>
    /\ UNCHANGED <<variant, weather, user_input, budget_result, client, runs>>

\* `task.output.raw if task.output else "No ... generated."`
RawOrDefault(key) ==
    IF key \in DOMAIN task_output THEN task_output[key] ELSE NoOutputText(key)

\* kickoff() is back: the results dict, the split of its budget entry,
\* st.session_state.results = results, "Trip plan ready", processing = False,
\* st.rerun()
CrewCollect ==
    /\ variant = "crew"
    /\ pc = "collect"
    /\ budget_result' = RawOrDefault("budget")
    /\ LET raw == [k \in {StageKeys[i] : i \in 1..Len(StageKeys)} |-> RawOrDefault(k)]
           p == PartitionCrew(raw["budget"])
       IN results' = Put(Put(raw, "budget", p.budget), "packing", p.packing)
    /\ status' = "complete"
    /\ processing' = FALSE
    /\ message' = "none"
    /\ pc' = "idle"
    /\ UNCHANGED <<variant, weather, user_input, stage, task_output, client,
                   fault_budget, outcome, dispatched, runs>>

\* ------------------------------------------------------------ result buttons
\* "Create New Plan" under the displayed sections
CreateNewPlan ==
    /\ pc = "idle"
    /\ results # EmptyDict
    /\ variant = "crew" => (~processing /\ "error" \notin DOMAIN results)
    /\ results' = EmptyDict
    /\ user_input' = IF variant = "crew" THEN NoInput ELSE user_input
    /\ message' = "none"
    /\ UNCHANGED <<variant, weather, processing, status, pc, stage, task_output, budget_result,
                   client, fault_budget, outcome, dispatched, runs>>

\* crew: "Try New Plan" under the displayed error
TryNewPlan ==
    /\ variant = "crew"
    /\ pc = "idle"
    /\ ~processing
    /\ "error" \in DOMAIN results
    /\ results' = EmptyDict
    /\ message' = "none"
    /\ UNCHANGED <<variant, weather, processing, user_input, status, pc, stage, task_output,
                   budget_result, client, fault_budget, outcome, dispatched, runs>>

\* ------------------------------------------------------------ the two programs
Init ==
    /\ WeatherUnused
    /\ variant \in {"assistant", "crew"}
    /\ results = EmptyDict /\ processing = FALSE /\ user_input = NoInput
    /\ status = "none" /\ message = "none"
    /\ pc = "idle" /\ stage = 0
    /\ task_output = EmptyDict /\ budget_result = <<>>
    /\ cl_pc = "idle" /\ attempt = 0 /\ max_retries = 0
    /\ ret = <<>> /\ path = "none" /\ log = <<>>
    /\ fault_budget = MaxFaults
    /\ outcome = NoOutcome /\ dispatched = <<>> /\ runs = 0

Next ==
    \/ \E sd \in Days, ed \in Days, dest \in Destinations : PlanMyTrip(sd, ed, dest)
    \/ CallAgent
    \/ SendRequest
    \/ \E o \in Outcomes(stage) : Receive(o)
    \/ Wake
    \/ StoreResult
    \/ StoreBudget
    \/ PlanningFailed
    \/ \E h \in BOOLEAN : CheckHealth(h)
    \/ TryAgain
    \/ \E o \in CrewOutcomes(stage) : CrewTask(o)
    \/ CrewCollect
    \/ CreateNewPlan
    \/ TryNewPlan

Spec == Init /\ [][Next]_vars

\* The steps the scripts take by themselves once a run is under way: a script
\* run goes on to its end or to st.stop(), and every POST is answered or times
\* out (timeout=120). Button presses are the user's and are not forced.
SystemNext ==
    \/ CallAgent
    \/ SendRequest
    \/ \E o \in Outcomes(stage) : Receive(o)
    \/ Wake
    \/ StoreResult
    \/ StoreBudget
    \/ PlanningFailed
    \/ \E h \in BOOLEAN : CheckHealth(h)
    \/ \E o \in CrewOutcomes(stage) : CrewTask(o)
    \/ CrewCollect

FairSpec == Init /\ [][Next]_vars /\ WF_vars(SystemNext)

\* ------------------------------------------------------------------ exports
\* The order in which the scripts insert keys into the results dict, which is
\* the order dict.values() and json.dumps go through them.
InsertionOrder ==
    <<"itinerary", "experiences", "recommendations", "safety", "budget", "packing", "error">>
Items(r) ==
    LET present(k) == k \in DOMAIN r
    IN SelectSeq(InsertionOrder, present)

\* json.dumps of a str: quotes around it, with quote, backslash and newline escaped.
RECURSIVE JsonEscape(_)
JsonEscape(t) ==
    IF t = <<>> THEN <<>>
    ELSE (IF Head(t) = "\n" THEN <<"\\", "n">>
          ELSE IF Head(t) \in {"\"", "\\"} THEN <<"\\", Head(t)>>
          ELSE <<Head(t)>>) \o JsonEscape(Tail(t))
JsonString(t) == <<"\"">> \o JsonEscape(t) \o <<"\"">>

\* json.dumps(st.session_state.results, indent=2): the members of the one
\* object it writes, name and value, in order.
JsonExport(r) ==
    LET ks == Items(r)
    IN [i \in 1..Len(ks) |-> <<ks[i], JsonString(r[ks[i]])>>]

\* str.join
RECURSIVE Join(_, _)
Join(sep, texts) ==
    IF texts = <<>> THEN <<>>
    ELSE IF Len(texts) = 1 THEN texts[1]
    ELSE texts[1] \o sep \o Join(sep, Tail(texts))

HorizontalRule == <<"\n", "\n", "-", "-", "-", "\n", "\n">>

\* "\n\n---\n\n".join(downloadable_results.values()), every value being a str
MarkdownExport(r) ==
    LET ks == Items(r)
    IN Join(HorizontalRule, [i \in 1..Len(ks) |-> r[ks[i]]])

\* The script run that follows the end of a run renders the download buttons,
\* and with them their data.
DownloadOffered ==
    /\ pc = "idle"
    /\ results # EmptyDict
    /\ variant = "crew" => (~processing /\ "error" \notin DOMAIN results)

\* ------------------------------------------------ travel_tools.py: WeatherTool
ErrNoApiKey == <<"E","r","r","o","r",":"," ","O","p","e","n","W","e","a","t","h","e","r","M","a","p"," ","A","P","I"," ","k","e","y"," ","n","o","t"," ","f","o","u","n","d"," ","i","n"," ","e","n","v","i","r","o","n","m","e","n","t"," ","v","a","r","i","a","b","l","e","s","."," ","P","l","e","a","s","e"," ","s","e","t"," ","O","P","E","N","W","E","A","T","H","E","R","M","A","P","_","A","P","I","_","K","E","Y"," ","i","n"," ","y","o","u","r"," ",".","e","n","v"," ","f","i","l","e",".">>
ErrFetching == <<"E","r","r","o","r"," ","f","e","t","c","h","i","n","g"," ","w","e","a","t","h","e","r"," ","f","o","r"," ">>
ErrUnknown == <<"U","n","k","n","o","w","n"," ","e","r","r","o","r"," ","f","r","o","m"," ","O","p","e","n","W","e","a","t","h","e","r","M","a","p"," ","A","P","I">>
ErrConnecting == <<"E","r","r","o","r"," ","c","o","n","n","e","c","t","i","n","g"," ","t","o"," ","O","p","e","n","W","e","a","t","h","e","r","M","a","p"," ","A","P","I",":"," ">>
ErrUnexpected == <<"E","r","r","o","r",":"," ","U","n","e","x","p","e","c","t","e","d"," ","r","e","s","p","o","n","s","e"," ","f","o","r","m","a","t"," ","f","r","o","m"," ","O","p","e","n","W","e","a","t","h","e","r","M","a","p"," ","A","P","I","."," ","C","h","e","c","k"," ","c","i","t","y"," ","n","a","m","e"," ","o","r"," ","A","P","I"," ","k","e","y",".">>
UrlBase == <<"h","t","t","p","s",":","/","/","a","p","i",".","o","p","e","n","w","e","a","t","h","e","r","m","a","p",".","o","r","g","/","d","a","t","a","/","2",".","5","/","w","e","a","t","h","e","r","?","q","=">>
UrlAppid == <<"&","a","p","p","i","d","=">>
UrlUnits == <<"&","u","n","i","t","s","=","m","e","t","r","i","c">>

\* What os.getenv can give: None, the empty string, a key.
ApiKeys ==
    {NoKey, [present |-> TRUE, value |-> <<>>],
     [present |-> TRUE, value |-> <<"k">>], [present |-> TRUE, value |-> <<"k", "2">>]}
Cities == {<<"P","a","r","i","s">>, <<"O","s","l","o">>}

\* Mutant of KeyMissing: only the empty string counts as no key.
KeyMissingOnlyWhenEmpty(k) == k.present /\ k.value = <<>>
\* `if not api_key:` is true of None and of ""
KeyMissing(k) == ~k.present \/ k.value = <<>>

\* The f-string of the URL; str(None) is "None".
WeatherUrl(city, k) ==
    UrlBase \o city \o UrlAppid
    \o (IF k.present THEN k.value ELSE <<"N","o","n","e">>) \o UrlUnits

\* What requests.get(url).json() can come to.
WeatherAnswers ==
    {[kind |-> "ok", temp |-> t, text |-> <<"r","a","i","n">>] : t \in {0, 21}}
    \cup {[kind |-> "api_error", temp |-> 0, text |-> m] :
             m \in {<<>>, <<"c","i","t","y"," ","n","o","t"," ","f","o","u","n","d">>}}
    \cup {[kind |-> k, temp |-> 0, text |-> <<>>] :
             k \in {"connection_error", "missing_field", "empty_weather",
                    "not_object", "not_json_caught", "not_json_raised"}}

\* _run(city) up to its first return or to its GET
WeatherRun(city) ==
    /\ pc = "tool"
    /\ w_pc \in {"idle", "returned", "raised"}
    /\ Len(w_requests) < MaxWeatherRequests
    /\ w_city' = city
    /\ IF KeyMissing(api_key)
       THEN /\ w_ret' = ErrNoApiKey
            /\ w_pc' = "returned"
            /\ UNCHANGED w_requests
       ELSE /\ w_requests' = Append(w_requests, WeatherUrl(city, api_key))
            /\ w_pc' = "inflight"
            /\ w_ret' = <<>>
    /\ UNCHANGED <<variant, session, pc, stage, task_output, budget_result, client,
                   fault_budget, outcome, dispatched, runs, api_key>>

\* The answer to the GET and the rest of _run. A body that is no JSON raises
\* JSONDecodeError, which is a RequestException or not with the version of
\* requests; a JSON list has no .get (AttributeError) and an empty weather list
\* has no [0] (IndexError): neither is caught.
WeatherReceive(o) ==
    /\ pc = "tool"
    /\ w_pc = "inflight"
    /\ o \in WeatherAnswers
    /\ IF o.kind \in {"not_object", "empty_weather", "not_json_raised"}
       THEN /\ w_pc' = "raised"
            /\ UNCHANGED w_ret
       ELSE /\ w_pc' = "returned"
            /\ w_ret' =
                 IF o.kind = "ok"
                 THEN w_city \o <<":", " ">> \o IntToStr(o.temp)
                      \o <<"°", "C", ",", " ">> \o o.text
                 ELSE IF o.kind = "api_error"
                 THEN ErrFetching \o w_city \o <<":", " ">>
                      \o (IF o.text = <<>> THEN ErrUnknown ELSE o.text)
                 ELSE IF o.kind = "missing_field" THEN ErrUnexpected
                 ELSE ErrConnecting \o <<"e">>
    /\ UNCHANGED <<variant, session, pc, stage, task_output, budget_result, client,
                   fault_budget, outcome, dispatched, runs, api_key, w_city, w_requests>>

WeatherInit ==
    /\ variant = "crew"
    /\ results = EmptyDict /\ processing = FALSE /\ user_input = NoInput
    /\ status = "none" /\ message = "none"
    /\ pc = "tool" /\ stage = 0
    /\ task_output = EmptyDict /\ budget_result = <<>>
    /\ cl_pc = "idle" /\ attempt = 0 /\ max_retries = 0
    /\ ret = <<>> /\ path = "none" /\ log = <<>>
    /\ fault_budget = 0
    /\ outcome = NoOutcome /\ dispatched = <<>> /\ runs = 0
    /\ api_key \in ApiKeys
    /\ w_pc = "idle" /\ w_city = <<>> /\ w_ret = <<>> /\ w_requests = <<>>

WeatherNext ==
    \/ \E city \in Cities : WeatherRun(city)
    \/ \E o \in WeatherAnswers : WeatherReceive(o)

SpecWeather == WeatherInit /\ [][WeatherNext]_vars

\* --------------------------------------------- the split on its own (SpecPartition)
\* Pieces a budget output is put together from.
Segments == {packing_list_marker, PackingWords, <<"\n">>, <<" ">>, <<"A">>, <<"#">>}
RECURSIVE Concats(_)
Concats(n) ==
    IF n = 0 THEN {<<>>}
    ELSE LET shorter == Concats(n - 1)
         IN shorter \cup {a \o b : a \in shorter, b \in Segments}
PartitionInputs == Concats(MaxSegs)

\* The state in which the budget stage has just come back with text t: the
\* assistant at the return of budget_agent, the crew at the return of kickoff().
PartitionInit ==
    /\ WeatherUnused
    /\ variant \in {"assistant", "crew"}
    /\ processing = TRUE /\ status = "running" /\ message = "none"
    /\ user_input = [present |-> TRUE, start_date |-> DateStr(1), end_date |-> DateStr(2),
                     duration |-> 1, destination |-> <<"P","a","r","i","s">>]
    /\ stage = Len(StageKeys)
    /\ budget_result = <<>>
    /\ attempt = 0 /\ fault_budget = 0 /\ runs = 1
    /\ dispatched = StageKeys
    /\ \E t \in PartitionInputs :
          IF variant = "assistant"
          THEN /\ pc = "call" /\ cl_pc = "returned" /\ ret = t /\ path = "response"
               /\ max_retries = DefaultMaxRetries
               /\ log = <<Ev("req", 0, <<>>), Ev("ok", 0, t)>>
               /\ results = [k \in {StageKeys[i] : i \in 1..4} |->
                                CannedText[CHOOSE i \in 1..4 : StageKeys[i] = k]]
               /\ task_output = EmptyDict
               /\ outcome = [s \in 1..Len(StageKeys) |->
                                IF s < Len(StageKeys) THEN "response" ELSE "none"]
          ELSE /\ pc = "collect" /\ cl_pc = "idle" /\ ret = <<>> /\ path = "none"
               /\ max_retries = 0 /\ log = <<>>
               /\ results = EmptyDict
               /\ task_output = [k \in {StageKeys[i] : i \in 1..Len(StageKeys)} |->
                                    IF k = "budget" THEN t
                                    ELSE CannedText[CHOOSE i \in 1..4 : StageKeys[i] = k]]
               /\ outcome = [s \in 1..Len(StageKeys) |-> "response"]

PartitionNext ==
    \/ StoreBudget
    \/ CrewCollect

SpecPartition == PartitionInit /\ [][PartitionNext]_vars


\* ------------------------------------------------- what one call did, from its log
TransientKinds == {"connection_error", "timeout", "http_error"}
IsAnswer(e) == e.ev \notin {"req", "sleep"}
IsSleep(e) == e.ev = "sleep"
IsReq(e) == e.ev = "req"
Requests(l) == Len(SelectSeq(l, IsReq))
Answers(l) == SelectSeq(l, IsAnswer)
Waits(l) == LET sl == SelectSeq(l, IsSleep) IN [i \in 1..Len(sl) |-> sl[i].n]
RECURSIVE SumSeq(_)
SumSeq(q) == IF q = <<>> THEN 0 ELSE Head(q) + SumSeq(Tail(q))
CallOver == cl_pc \in {"returned", "raised"}
AllTransient(a) == \A i \in 1..Len(a) : a[i].ev \in TransientKinds

\* C1: no call sends more than max_retries requests, and a call whose every
\* request failed transiently has sent exactly max_retries requests and
\* returned the exhaustion result (the return of line 60).
C1_ExhaustedAfterMaxAttempts ==
    /\ Requests(log) <= max_retries
    /\ (CallOver /\ AllTransient(Answers(log))) =>
          /\ Requests(log) = max_retries
          /\ cl_pc = "returned"
          /\ path = "exhausted"
          /\ ret = ExhaustedMessage(max_retries)

C1_Witness ==
    /\ CallOver /\ AllTransient(Answers(log))
    /\ max_retries = DefaultMaxRetries
    /\ Requests(log) = DefaultMaxRetries

\* C3: when the first k answers are transient failures and answer k+1 carries
\* the text, the call returns that text after k+1 requests, k < max_retries,
\* the wait after failed attempt i is BackoffBase * 2^i and the waits add up to
\* BackoffBase * (2^k - 1).
C3_BackoffThenSuccess ==
    LET ans == Answers(log)
        k == Len(ans) - 1
    IN (/\ ans # <<>>
        /\ ans[Len(ans)].ev = "ok"
        /\ AllTransient(SubSeq(ans, 1, k))) =>
          /\ cl_pc = "returned"
          /\ path = "response"
          /\ ret = ans[k + 1].txt
          /\ Requests(log) = k + 1
          /\ k < max_retries
          /\ Waits(log) = [i \in 1..k |-> BackoffBase * 2 ^ (i - 1)]
          /\ SumSeq(Waits(log)) = BackoffBase * (2 ^ k - 1)

C3_Witness ==
    /\ path = "response"
    /\ Len(Answers(log)) = 3
    /\ Waits(log) = <<1, 2>>

\* C4: an answer without the `response` field ends the call on the spot with
\* the invalid-format result: nothing follows it in the log, and when it is the
\* first answer exactly one request was sent and no sleep happened, whatever
\* max_retries is.
C4_MalformedNotRetried ==
    /\ \A i \in 1..Len(log) : log[i].ev = "no_field" =>
          /\ i = Len(log)
          /\ cl_pc = "returned"
          /\ path = "invalid"
          /\ ret = ErrInvalidFormat
    /\ (Answers(log) # <<>> /\ Answers(log)[1].ev = "no_field") =>
          /\ Requests(log) = 1
          /\ Waits(log) = <<>>
          /\ attempt = 0

C4_Witness ==
    /\ path = "invalid"
    /\ max_retries > 1
    /\ Requests(log) = 1

\* C5: a sleep comes only right after a transiently failed attempt that is not
\* the last one, and the next request follows it: the log never starts with a
\* sleep, never ends with one once the call is over, and an exhausted call
\* slept exactly max_retries - 1 times.
C5_WaitOnlyBetweenAttempts ==
    /\ \A i \in 1..Len(log) : IsSleep(log[i]) =>
          /\ i > 1
          /\ log[i - 1].ev \in TransientKinds
          /\ log[i - 1].n < max_retries - 1
          /\ i < Len(log) => IsReq(log[i + 1])
          /\ i = Len(log) => cl_pc \in {"sleep", "loop"} /\ attempt < max_retries
    /\ path = "exhausted" => Len(Waits(log)) = max_retries - 1

C5_Witness ==
    /\ path = "exhausted"
    /\ max_retries = DefaultMaxRetries
    /\ Len(Waits(log)) = 2

\* ----------------------------------------------------- the pipeline's claims
ErrorExits == {"exhausted", "invalid"}

\* C2: the value query_llama returns after exhausting its attempts, or after an
\* answer without the `response` field, is never stored as a section of the
\* results as if it were model output.
C2_ErrorNeverStoredAsSection ==
    \A s \in 1..Len(StageKeys) :
        outcome[s] \in ErrorExits =>
            ~(/\ StageKeys[s] \in DOMAIN results
              /\ results[StageKeys[s]] \in {ExhaustedMessage(DefaultMaxRetries),
                                             ErrInvalidFormat})

\* C6: a run in which a stage's client call exhausted its attempts ends Failed
\* and never Completed: once such a run is over its status is "error".
C6_ExhaustedRunEndsFailed ==
    (pc = "idle" /\ \E s \in 1..Len(StageKeys) : outcome[s] = "exhausted") =>
        status = "error"

\* C7: once a stage's client call has exhausted its attempts, the run sends no
\* further request and dispatches no further stage.
ExhaustedInRun == \E s \in 1..Len(StageKeys) : outcome[s] = "exhausted"
C7_NoRequestAfterExhaustion ==
    [][ExhaustedInRun =>
          /\ ~(cl_pc = "loop" /\ cl_pc' = "inflight")
          /\ ~(Len(dispatched') > Len(dispatched))]_vars

\* -------------------------------------------------------- the split's claims
\* The run has ended Completed and its sections are still in the results.
SplitDone ==
    /\ pc = "idle" /\ status = "complete"
    /\ {"budget", "packing"} \subseteq DOMAIN results
MarkerAt == Find(budget_result, packing_list_marker)
BeforeMarker == SubSeq(budget_result, 1, MarkerAt - 1)
AfterMarker ==
    SubSeq(budget_result, MarkerAt + Len(packing_list_marker), Len(budget_result))

\* C8: when the marker occurs in the budget output, the budget section is the
\* text before its first occurrence with trailing whitespace trimmed, the
\* marker excluded.
C8_BudgetSectionIsTrimmedHead ==
    (SplitDone /\ Contains(budget_result, packing_list_marker)) =>
        results["budget"] = RStrip(BeforeMarker)

\* C9: when the marker occurs in the budget output, the packing section is the
\* marker followed by everything after its first occurrence, unchanged (the
\* line break after the heading and the text after a second marker included),
\* trimmed as a whole.
C9_PackingSectionIsMarkerAndTail ==
    (SplitDone /\ Contains(budget_result, packing_list_marker)) =>
        results["packing"] = Strip(packing_list_marker \o AfterMarker)

\* C10: when the marker does not occur in the budget output, the budget section
\* is the whole output unchanged and the packing section is the variant's fixed
\* placeholder, never the empty string or anything else.
C10_NoMarkerGivesPlaceholder ==
    (SplitDone /\ ~Contains(budget_result, packing_list_marker)) =>
        /\ results["budget"] = budget_result
        /\ results["packing"] = IF variant = "assistant" THEN AssistantPlaceholder
                                ELSE CrewPlaceholder

\* ------------------------------------------------------- order and result keys
FixedOrder == <<"itinerary", "experiences", "recommendations", "safety", "budget">>

\* C11: the stages are handed to the client (or the crew) in the order
\* Itinerary, Experiences, Recommendations, Safety, Budget, none twice: what
\* has been dispatched is always a prefix of that order, and all of it once a
\* run has ended Completed.
C11_StagesDispatchedInFixedOrder ==
    /\ Len(dispatched) <= Len(FixedOrder)
    /\ dispatched = SubSeq(FixedOrder, 1, Len(dispatched))
    /\ status = "complete" => dispatched = FixedOrder

C11_Witness ==
    /\ status = "complete"
    /\ pc = "idle"
    /\ dispatched = FixedOrder

SixKeys == {"itinerary", "experiences", "recommendations", "safety", "budget", "packing"}

\* C12: a run that has ended Completed leaves a result with exactly the six
\* keys itinerary, experiences, recommendations, safety, budget, packing and
\* no other key (until "Create New Plan" empties it).
C12_CompletedRunHasSixKeys ==
    (status = "complete" /\ results # EmptyDict) =>
        DOMAIN results = SixKeys

C12_Witness ==
    /\ status = "complete"
    /\ DOMAIN results = SixKeys
    /\ \A s \in 1..Len(StageKeys) : outcome[s] = "response"

\* ------------------------------------------------------------- runs in a session
\* C13: starting a run discards the previous run's results: in the step
\* in which processing is set the result accumulator becomes (or stays) empty.
C13_NewRunStartsEmpty ==
    [][(processing' /\ ~processing) => results' = EmptyDict]_vars

\* ------------------------------------------------------------- empty destination
\* C14: with an empty destination the prompt is rejected before the
\* endpoint is contacted: no stage is dispatched and no request is sent or
\* outstanding in a run whose destination is empty.
C14_EmptyDestinationSendsNothing ==
    (processing /\ user_input.destination = <<>>) =>
        /\ dispatched = <<>>
        /\ cl_pc # "inflight"
        /\ \A i \in 1..Len(log) : ~IsReq(log[i])

\* ------------------------------------------------------------- termination
\* C15: a run that has started (processing set) eventually reaches a
\* terminal state, with processing cleared, provided every request is answered
\* or times out; it never stays Running for ever.
C15_StartedRunTerminates == processing ~> ~processing

\* The keys a run can have written by itself, given how far its stages got: a
\* stage's key once its call has returned a text, packing with budget, and the
\* crew script's error entry.
Returned(s) == outcome[s] \notin {"none", "raised", "typeerror"}
WrittenThisRun ==
    {StageKeys[s] : s \in {t \in 1..Len(StageKeys) : Returned(t)}}
    \cup (IF Returned(Len(StageKeys)) THEN {"packing"} ELSE {})
    \cup {"error"}

\* C16: the result a run leaves depends only on the run's own input and
\* on the client's answers to it, not on earlier runs of the session: when a run
\* is over, the result holds no entry other than those this run wrote.
C16_ResultDependsOnThisRunOnly ==
    (~processing /\ pc = "idle") => DOMAIN results \subseteq WrittenThisRun

\* ------------------------------------------------------------- non-2xx answers
\* C17: a non-2xx status is handled as a transient failure: when attempts
\* remain the call sleeps and sends the next request, on the last attempt the
\* call ends with the exhaustion result, and a call whose last answer carries
\* the text after a non-2xx answer returns that text.
C17_Non2xxIsRetried ==
    /\ \A i \in 1..Len(log) : log[i].ev = "http_error" =>
          IF log[i].n < max_retries - 1
          THEN /\ i < Len(log)
               /\ IsSleep(log[i + 1])
               /\ i + 2 <= Len(log) => (IsReq(log[i + 2]) /\ log[i + 2].n = log[i].n + 1)
          ELSE /\ i = Len(log)
               /\ path = "exhausted"
    /\ LET ans == Answers(log)
       IN (/\ ans # <<>>
           /\ ans[Len(ans)].ev = "ok"
           /\ \E i \in 1..Len(ans) : ans[i].ev = "http_error") =>
             /\ cl_pc = "returned"
             /\ path = "response"
             /\ ret = ans[Len(ans)].txt

C17_Witness ==
    /\ path = "response"
    /\ Len(Answers(log)) >= 2
    /\ Answers(log)[1].ev = "http_error"

\* ------------------------------------------------------------- packing entry
\* The packing text the running script derives from a raw budget output.
DerivedPacking(raw) ==
    IF variant = "assistant" THEN PartitionAssistant(raw).packing
    ELSE PartitionCrew(raw).packing

\* A step that writes the packing entry or changes its text.
PackingWritten ==
    /\ "packing" \in DOMAIN results'
    /\ "packing" \in DOMAIN results => results'["packing"] # results["packing"]

\* C18: the packing entry comes from the budget stage's raw output and
\* from nothing else: no run dispatches more than the five stages and none of
\* them is a packing stage; a step that writes the entry happens when the
\* budget call has returned and writes the part split off its raw output; and
\* the step that completes a run has dispatched exactly five stages and leaves
\* the entry so derived.
C18_PackingDerivedFromBudget ==
    [][/\ Len(dispatched') <= Len(StageKeys)
       /\ \A i \in 1..Len(dispatched') : dispatched'[i] # "packing"
       /\ PackingWritten =>
             /\ outcome'[Len(StageKeys)] \notin {"none", "raised", "typeerror"}
             /\ results'["packing"] = DerivedPacking(budget_result')
       /\ (status' = "complete" /\ status # "complete") =>
             /\ Len(dispatched') = Len(StageKeys)
             /\ "packing" \in DOMAIN results'
             /\ results'["packing"] = DerivedPacking(budget_result')
      ]_vars

C18_Witness ==
    /\ status = "complete"
    /\ Len(dispatched) = Len(StageKeys)
    /\ "packing" \in DOMAIN results
    /\ Contains(budget_result, packing_list_marker)
    /\ results["packing"] = DerivedPacking(budget_result)

\* ------------------------------------------------------------- blocking calls
\* C19: at most one request is outstanding, and a stage's call starts and
\* sends its requests only after the calls of all earlier stages are over: a
\* call's requests exceed its answers by one exactly while a POST is in flight;
\* a stage is dispatched only when no call is under way and every earlier stage
\* of the run has its outcome; and so is every request sent for it.
C19_OneRequestAtATime ==
    [][/\ Requests(log') - Len(Answers(log')) = IF cl_pc' = "inflight" THEN 1 ELSE 0
       /\ (dispatched' # dispatched /\ dispatched' # <<>>) =>
             /\ cl_pc = "idle"
             /\ \A s \in 1..(Len(dispatched') - 1) : outcome'[s] # "none"
       /\ (cl_pc' = "inflight" /\ cl_pc # "inflight") =>
             /\ cl_pc = "loop"
             /\ dispatched'[Len(dispatched')] = StageKeys[stage']
             /\ \A s \in 1..(stage' - 1) : outcome'[s] # "none"
      ]_vars

C19_Witness ==
    /\ pc = "call"
    /\ cl_pc = "inflight"
    /\ stage = 2
    /\ attempt = 1
    /\ outcome[1] = "response"

\* ------------------------------------------------------------- date check
\* A step in which "Plan My Trip" was pressed and the dates were refused.
RejectedPress == message' = "dates" /\ (message # "dates" \/ pc' # pc)

FailedMidPipeline ==
    /\ status = "error" /\ pc = "idle" /\ ~processing
    /\ message = "planning_failed"
    /\ \E s \in 1..Len(StageKeys) : Returned(s)

\* The shape of a result: nothing, the error entry alone, sections alone, or both.
ShapeOf(r) ==
    IF r = EmptyDict THEN "empty"
    ELSE IF DOMAIN r = {"error"} THEN "atomic"
    ELSE IF "error" \notin DOMAIN r THEN "retained"
    ELSE "mixed"

\* The shape a script's exception handler leaves when a section is stored.
PolicyOf(v) == ShapeOf(ResultsAfterException(v, Put(EmptyDict, StageKeys[1], CannedText[1])))

\* C21: there is one failure policy in the program: after a run that
\* failed mid-pipeline the result has the shape (completed sections kept, or the
\* error entry alone) that the exception handler of every script yields.
C21_OneFailurePolicy ==
    FailedMidPipeline => \A v \in {"assistant", "crew"} : ShapeOf(results) = PolicyOf(v)

\* C22: in the crew script the stored results are always empty, or the
\* error entry alone, or the six sections without an error entry.
C22_CrewResultShapes ==
    variant = "crew" =>
        \/ results = EmptyDict
        \/ DOMAIN results = {"error"}
        \/ DOMAIN results = SixKeys

C22_Witness ==
    /\ variant = "crew"
    /\ runs = MaxRuns
    /\ DOMAIN results = {"error"}
    /\ outcome[1] = "response"
    /\ outcome[2] = "raised"

\* ------------------------------------------------------------- processing flag
\* Positions inside the `if st.session_state.processing:` block.
InPipelineBlock == {"agent", "call", "task", "collect"}

\* C23: processing is set only by a press of "Plan My Trip" whose dates
\* passed the check, and every way out of the pipeline block, the normal one and
\* the exception handler, clears it: outside the block and the health check that
\* precedes it processing is false, and the crew script holds results to
\* display only while processing is false.
C23_ProcessingSetAndCleared ==
    /\ [](pc = "idle" => ~processing)
    /\ [](variant = "crew" /\ results # EmptyDict => ~processing)
    /\ [][(processing' /\ ~processing) =>
            /\ pc = "idle"
            /\ runs' = runs + 1
            /\ message' = "none"
            /\ user_input'.present /\ user_input'.duration >= 1]_vars
    /\ [][(pc \in InPipelineBlock /\ pc' \notin InPipelineBlock) =>
            /\ ~processing'
            /\ status' \in {"complete", "error"}]_vars

C23_Witness ==
    /\ variant = "assistant"
    /\ status = "error"
    /\ pc = "idle"
    /\ ~processing
    /\ "itinerary" \in DOMAIN results

\* ------------------------------------------------------------- exports
\* C24: the JSON export of a finished run is one flat object with the
\* six result keys and the terminal state, and the markdown export is the six
\* section texts in the order itinerary, experiences, recommendations, safety,
\* budget, packing with a horizontal rule between them.
C24_ExportsProjectResult ==
    (DownloadOffered /\ status \in {"complete", "error"}) =>
        /\ {JsonExport(results)[i][1] : i \in 1..Len(JsonExport(results))}
              = SixKeys \cup {"state"}
        /\ variant = "crew" =>
              MarkdownExport(results) =
                  Join(HorizontalRule,
                       <<results["itinerary"], results["experiences"],
                         results["recommendations"], results["safety"],
                         results["budget"], results["packing"]>>)

\* ------------------------------------------------------------- weather tool
\* C25: without an API key in the environment the weather tool sends no
\* request, raises nothing and returns the message that says the key is missing.
C25_NoKeyNoRequest ==
    (~api_key.present \/ api_key.value = <<>>) =>
        /\ w_requests = <<>>
        /\ w_pc \in {"idle", "returned"}
        /\ w_pc = "returned" => w_ret = ErrNoApiKey

C25_Witness ==
    /\ ~api_key.present
    /\ w_pc = "returned"
    /\ w_city = <<"O","s","l","o">>
    /\ w_ret = ErrNoApiKey

\* ------------------------------------------------------------- attempts >= 1
\* C26: every call the program makes of query_llama runs with at least
\* one attempt: max_retries is at least 1 in every call, no call leaves by the
\* fallback return after the loop, and a call that is over has sent a request.
C26_AttemptsAtLeastOne ==
    /\ cl_pc # "idle" => max_retries >= 1
    /\ path # "fallback"
    /\ \A s \in 1..Len(StageKeys) : outcome[s] # "fallback"
    /\ CallOver => Requests(log) >= 1

C26_Witness ==
    /\ pc = "call"
    /\ stage = 3
    /\ CallOver
    /\ max_retries = DefaultMaxRetries
    /\ Requests(log) = 1

====
